---- MODULE Spec2Model ----
(***************************************************************************)
(* Inventory screen (src/src/pages/Inventory.tsx): the product list, the   *)
(* add/edit modal with its two drafts, soft delete with a ten second undo  *)
(* countdown, the success banner and the localStorage mirror.              *)
(*                                                                         *)
(* JavaScript strings are sequences of one-character strings, so that      *)
(* trim, toLowerCase, includes, localeCompare and parseFloat are computed. *)
(* Every event handler is one action: the handler's batched state updates, *)
(* the render that follows and the effects that render triggers.           *)
(***************************************************************************)
EXTENDS Integers, Sequences, FiniteSets, TLC

\* ------------------------------------------------------------------ bounds

\* Longest product list an Add may extend.
MaxProducts == 3

\* Field input events (handleChange calls) in one run.
MaxChanges == 4

\* Pending banner-dismiss timeouts a successful save may still add to.
MaxPending == 2

\* ------------------------------------------------------------------ values

\* JavaScript null (editedProduct, deletedProduct).
Null == [null |-> TRUE]

\* The field names of a product object, in the order the code writes them.
Fields == <<"code", "name", "category", "costPrice", "price", "qty", "sold">>

\* numericFields of handleChange.
numericFields == {"costPrice", "price", "qty", "sold"}

B1 == <<"B", "-", "1">>
B2 == <<"B", "-", "2">>
Blouses == <<"B", "l", "o", "u", "s", "e", "s">>
Name1 == <<"4", "6", "8", "9", " ", "C", "o", "t", "t", "o", "n", " ",
           "B", "l", "o", "u", "s", "e">>
Name2 == <<"A", "r", "v", "i", "n", "d", " ", "C", "o", "t", "t", "o", "n", " ",
           "B", "l", "o", "u", "s", "e">>

initialProducts ==
  << [code |-> B1, name |-> Name1, category |-> Blouses,
      costPrice |-> 45, price |-> 65, qty |-> 100, sold |-> 10],
     [code |-> B2, name |-> Name2, category |-> Blouses,
      costPrice |-> 60, price |-> 85, qty |-> 100, sold |-> 15] >>

\* The empty draft of useState and of the reset after a successful Add.
EmptyProduct ==
  [code |-> <<>>, name |-> <<>>, category |-> <<>>,
   costPrice |-> 0, price |-> 0, qty |-> 0, sold |-> 0]

\* The countdown a Delete starts (and the initial undoTimer).
UNDO_SECONDS == 10

\* ------------------------------------------------------------------ inputs

a1 == <<"a", "-", "1">>
Sari == <<"S", "a", "r", "i">>
arvind == <<"a", "r", "v", "i", "n", "d">>

\* The category list of ../data/categories, which offers the options of the
\* category dropdown: a fixed set of strings, the seed's category among them.
categories == {Blouses}

\* What the user may type or select, per field (event.target.value).
InputValues(name) ==
  CASE name = "code" -> {B1, a1}
    [] name = "name" -> {Sari}
    [] name = "category" -> categories
    [] name = "costPrice" -> {}
    [] name = "price" -> {<<>>, <<"6", "5">>}
    [] name = "qty" -> {}
    [] name = "sold" -> {}

FieldNames == {Fields[i] : i \in 1..Len(Fields)}

\* What the user may type into the search box.
Queries == {<<>>, arvind, B2}

\* ------------------------------------------------------------------ strings

UpperCase == <<"A", "B", "C", "D", "E", "F", "G", "H", "I", "J", "K", "L", "M",
               "N", "O", "P", "Q", "R", "S", "T", "U", "V", "W", "X", "Y", "Z">>
LowerCase == <<"a", "b", "c", "d", "e", "f", "g", "h", "i", "j", "k", "l", "m",
               "n", "o", "p", "q", "r", "s", "t", "u", "v", "w", "x", "y", "z">>
Digits == <<"0", "1", "2", "3", "4", "5", "6", "7", "8", "9">>

\* The index of x in sequence s, 0 when absent.
IndexOf(s, x) ==
  IF \E i \in 1..Len(s) : s[i] = x
    THEN CHOOSE i \in 1..Len(s) : s[i] = x /\ \A j \in 1..(i - 1) : s[j] # x
    ELSE 0

\* The lower-case letter of each upper-case letter.
LowerOf == [c \in {UpperCase[i] : i \in 1..26} |-> LowerCase[IndexOf(UpperCase, c)]]

LowerChar(c) == IF c \in DOMAIN LowerOf THEN LowerOf[c] ELSE c

\* String.prototype.toLowerCase
ToLowerCase(s) == [i \in 1..Len(s) |-> LowerChar(s[i])]

IsSpace(c) == c = " "

\* String.prototype.trim
Trim(s) ==
  LET keep == {i \in 1..Len(s) : ~IsSpace(s[i])}
  IN  IF keep = {} THEN <<>>
      ELSE SubSeq(s, CHOOSE i \in keep : \A j \in keep : i <= j,
                     CHOOSE i \in keep : \A j \in keep : i >= j)

\* String.prototype.includes
Includes(s, q) ==
  \E i \in 1..(Len(s) - Len(q) + 1) : SubSeq(s, i, i + Len(q) - 1) = q

\* Collation: blanks, then punctuation, then digits, then letters (primary
\* weight, case folded); a difference in case alone is the tertiary weight,
\* lower case first.
CollationOrder == <<" ", "-">> \o Digits \o LowerCase

PrimaryOf == [c \in {CollationOrder[i] : i \in 1..Len(CollationOrder)} |->
                IndexOf(CollationOrder, c)]

Primary(c) == PrimaryOf[LowerChar(c)]

Tertiary(c) == IF c \in DOMAIN LowerOf THEN 1 ELSE 0

\* Lexicographic comparison of two sequences of integers: -1, 0 or 1.
RECURSIVE CompareKeys(_, _)
CompareKeys(x, y) ==
  IF x = <<>> THEN (IF y = <<>> THEN 0 ELSE -1)
  ELSE IF y = <<>> THEN 1
  ELSE IF Head(x) < Head(y) THEN -1
  ELSE IF Head(x) > Head(y) THEN 1
  ELSE CompareKeys(Tail(x), Tail(y))

\* String.prototype.localeCompare
LocaleCompare(s, t) ==
  LET p == CompareKeys([i \in 1..Len(s) |-> Primary(s[i])],
                       [i \in 1..Len(t) |-> Primary(t[i])])
  IN  IF p # 0 THEN p
      ELSE CompareKeys([i \in 1..Len(s) |-> Tertiary(s[i])],
                       [i \in 1..Len(t) |-> Tertiary(t[i])])

\* The value of a run of digits read from the left.
RECURSIVE DigitsValue(_, _)
DigitsValue(s, acc) ==
  IF s = <<>> \/ IndexOf(Digits, Head(s)) = 0 THEN acc
  ELSE DigitsValue(Tail(s), acc * 10 + (IndexOf(Digits, Head(s)) - 1))

\* parseFloat on the integer strings of the inputs: <<n>>, or <<>> for NaN.
ParseFloat(s) ==
  LET t == Trim(s)
      neg == t # <<>> /\ Head(t) = "-"
      body == IF t # <<>> /\ Head(t) \in {"-", "+"} THEN Tail(t) ELSE t
  IN  IF body = <<>> \/ IndexOf(Digits, Head(body)) = 0 THEN <<>>
      ELSE <<(IF neg THEN -1 ELSE 1) * DigitsValue(body, 0)>>

\* `x || 0` on a parseFloat result: NaN and 0 are falsy.
OrZero(x) == IF x = <<>> THEN 0 ELSE x[1]

\* ------------------------------------------------------------------ helpers

\* products.filter(p => p.code !== code): every product with the code goes.
WithoutCode(ps, code) == SelectSeq(ps, LAMBDA p : p.code # code)

\* products.find(p => p.code === code): the first match, wrapped; <<>> for
\* undefined.
FindByCode(ps, code) ==
  LET hits == SelectSeq(ps, LAMBDA p : p.code = code)
  IN  IF hits = <<>> THEN <<>> ELSE <<Head(hits)>>

\* One step of a stable sort: x goes after every element that does not
\* compare greater than it.
RECURSIVE InsertByCode(_, _)
InsertByCode(sorted, x) ==
  IF sorted = <<>> THEN <<x>>
  ELSE IF LocaleCompare(Head(sorted).code, x.code) > 0 THEN <<x>> \o sorted
  ELSE <<Head(sorted)>> \o InsertByCode(Tail(sorted), x)

RECURSIVE SortFrom(_, _)
SortFrom(sorted, rest) ==
  IF rest = <<>> THEN sorted
  ELSE SortFrom(InsertByCode(sorted, Head(rest)), Tail(rest))

\* A mutant of SortByCode: the list is left in insertion order.
SortByCodeSkipped(ps) == ps

\* A mutant of SortByCode: the last element replaces the elements with its code.
SortByCodeReplacing(ps) ==
  IF ps = <<>> THEN ps
  ELSE SortFrom(<<>>, SelectSeq(SubSeq(ps, 1, Len(ps) - 1),
                                LAMBDA p : p.code # ps[Len(ps)].code)
                      \o <<ps[Len(ps)]>>)

\* ps.sort((a, b) => a.code.localeCompare(b.code)); Array.prototype.sort is stable.
SortByCode(ps) == SortFrom(<<>>, ps)

\* A mutant of filteredProducts: the texts are compared as they are typed.
filteredProductsCaseSensitive(ps, q) ==
  LET Match(p) == Includes(p.name, q) \/ Includes(p.code, q)
  IN  SelectSeq(ps, Match)

\* filteredProducts: the rows whose name or code contains the query, case folded.
filteredProducts(ps, q) ==
  LET Match(p) == \/ Includes(ToLowerCase(p.name), ToLowerCase(q))
                  \/ Includes(ToLowerCase(p.code), ToLowerCase(q))
  IN  SelectSeq(ps, Match)

\* The rules of validateForm and their messages, in the order they are tested.
Violates(product, f) ==
  CASE f = "code" -> Trim(product.code) = <<>>
    [] f = "name" -> Trim(product.name) = <<>>
    [] f = "category" -> product.category = <<>>
    [] f = "price" -> product.price <= 0
    [] f = "costPrice" -> product.costPrice < 0
    [] f = "qty" -> product.qty < 0
    [] f = "sold" -> product.sold < 0

Message(f) ==
  CASE f = "code" -> "Code is required"
    [] f = "name" -> "Name is required"
    [] f = "category" -> "Category is required"
    [] f = "price" -> "Price must be > 0"
    [] f = "costPrice" -> "Cost cannot be negative"
    [] f = "qty" -> "Quantity cannot be negative"
    [] f = "sold" -> "Sold cannot be negative"

\* A mutant of validateForm: it stops at the first rule that is violated.
validateFormShortCircuit(product) ==
  LET bad == {k \in 1..Len(Fields) : Violates(product, Fields[k])}
      first == {k \in bad : \A j \in bad : k <= j}
  IN  [f \in {Fields[k] : k \in first} |-> Message(f)]

\* A mutant of validateForm: the code rule is missing.
validateFormNoCode(product) ==
  [f \in {g \in FieldNames \ {"code"} : Violates(product, g)} |-> Message(f)]

\* A mutant of validateForm: the price rule is missing.
validateFormNoPrice(product) ==
  [f \in {g \in FieldNames \ {"price"} : Violates(product, g)} |-> Message(f)]

\* validateForm: the errors object, a mapping from the offending fields.
validateForm(product) ==
  [f \in {g \in FieldNames : Violates(product, g)} |-> Message(f)]

\* The empty errors object of useState({}) and setFormErrors({}).
NoErrors == [f \in {} |-> ""]

\* Object.keys(errors).length > 0
HasErrors(errors) == DOMAIN errors # {}

\* JSON.stringify of the product list: the objects as key/value pairs in key order.
JSONStringify(ps) ==
  [i \in 1..Len(ps) |-> [k \in 1..Len(Fields) |-> <<Fields[k], ps[i][Fields[k]]>>]]

\* JSON.parse of a stored product list.
JSONParse(text) ==
  [i \in 1..Len(text) |->
     [f \in FieldNames |-> text[i][IndexOf(Fields, f)][2]]]

\* localStorage.getItem: <<the stored value>>, <<>> for null.
GetItem(store, key) == IF key \in DOMAIN store THEN <<store[key]>> ELSE <<>>

\* A mutant of SaveEffect: the product list is not rewritten.
SaveEffectQueryOnly(store, ps, q) ==
  [k \in DOMAIN store \cup {"searchQuery"} |->
     IF k = "searchQuery" THEN q ELSE store[k]]

\* The save effect: both keys are rewritten after a render that changed
\* products or searchQuery (and after the first render).
SaveEffect(store, ps, q) ==
  [k \in {"products", "searchQuery"} |->
     IF k = "products" THEN JSONStringify(ps) ELSE q]

\* A mutant of LoadProducts: the stored list is ignored.
LoadProductsSeedOnly(store) == initialProducts

\* The lazy initial value of products.
LoadProducts(store) ==
  LET saved == GetItem(store, "products")
  IN  IF saved # <<>> THEN JSONParse(saved[1]) ELSE initialProducts

\* The initial value of searchQuery: getItem(...) || ''.
LoadSearchQuery(store) ==
  LET saved == GetItem(store, "searchQuery")
  IN  IF saved # <<>> /\ saved[1] # <<>> THEN saved[1] ELSE <<>>

\* The sequence without its i-th element: a timeout that fired or was cleared.
RemoveAt(seq, i) == SubSeq(seq, 1, i - 1) \o SubSeq(seq, i + 1, Len(seq))

\* A mutant of TimerAfter: the timeout is armed whether a product is held or not.
TimerAfterUnheld(ut, dp) == IF ut > 0 THEN <<ut>> ELSE <<>>

\* The body of the undo timer effect in a render with countdown ut and held
\* product dp: the timeout it arms (with the count it captured), <<>> for none.
TimerAfter(ut, dp) == IF ut > 0 /\ dp # Null THEN <<ut>> ELSE <<>>

\* A mutant of Cleanup: the timeout of the previous run is left pending.
CleanupSkipped(pending, ut, dp) == pending

\* The cleanup of the undo timer effect as it ran in a render with countdown ut
\* and held product dp: clearTimeout of the timeout that run armed, if it
\* armed one and the timeout has not fired.
Cleanup(pending, ut, dp) ==
  IF TimerAfter(ut, dp) = <<>> \/ IndexOf(pending, ut) = 0 THEN pending
  ELSE RemoveAt(pending, IndexOf(pending, ut))

\* The undo timer effect over the pending timeouts, from the render with
\* (ut0, dp0) to the render with (ut, dp): it runs when a dependency changed,
\* first the cleanup of the previous run, then the body.
TimerEffect(pending, ut0, dp0, ut, dp) ==
  IF ut = ut0 /\ dp = dp0 THEN pending
  ELSE Cleanup(pending, ut0, dp0) \o TimerAfter(ut, dp)

\* A mutant of HeldAfter: the held product is not cleared at 0.
HeldAfterNeverCleared(ut, dp) == dp

\* The undo timer effect at 0: setDeletedProduct(null).
HeldAfter(ut, dp) == IF ut = 0 THEN Null ELSE dp

\* ------------------------------------------------------------------ state

VARIABLES
  mounted,          \* the Inventory screen is on the page
  storage,          \* localStorage: key -> stored value
  products,         \* useState: the live product list
  searchQuery,      \* useState: the search box
  isModalOpen,      \* useState: the add/edit modal is shown
  newProduct,       \* useState: the add-draft
  editedProduct,    \* useState: the edit-draft, Null when not editing
  deletedProduct,   \* useState: the soft-deleted product, Null when none
  undoTimer,        \* useState: the undo countdown
  timer,            \* the pending countdown timeouts, each the undoTimer it captured
  showSuccess,      \* useState: the success banner is shown
  successTimeouts,  \* pending setTimeout(() => setShowSuccess(false), 3000) calls
  formErrors,       \* useState: the errors object
  lastOp,           \* history: the last handler that ran and its outcome (<<"ui">>
                    \* for the handlers that only open the form or touch the view;
                    \* for a field input the field and whether the text typed
                    \* into a numeric field was no number)
  beforeDelete,     \* history: <<the list before the last Delete>>, <<>> once the
                    \* store was changed by a save or the countdown ran out
  editOrigin,       \* history: <<the code of the row the edit form was opened on>>,
                    \* <<>> once the add form was opened
  nChanges,         \* history: the number of field input events so far
  session,          \* environment: the kind of session the user has (Sessions)
  call              \* a helper function called on its own: its name, its argument
                    \* and <<its return value>> (<<>> before it returns)

vars == <<mounted, storage, products, searchQuery, isModalOpen, newProduct,
          editedProduct, deletedProduct, undoTimer, timer, showSuccess,
          successTimeouts, formErrors, lastOp, beforeDelete, editOrigin, nChanges, session, call>>

\* Everything but the helper call.
componentVars == <<mounted, storage, products, searchQuery, isModalOpen, newProduct,
                   editedProduct, deletedProduct, undoTimer, timer, showSuccess,
                   successTimeouts, formErrors, lastOp, beforeDelete, editOrigin,
                   nChanges, session>>

\* The state variables of the component (everything but storage and history).
modalVars == <<isModalOpen, newProduct, editedProduct, formErrors>>
undoVars == <<deletedProduct, undoTimer, timer>>
bannerVars == <<showSuccess, successTimeouts>>

\* The sessions explored, and the controls the user works with in each:
\* "form", the modal (add and edit) and navigation, without Delete; "undo",
\* every control but the form's inputs; "store", the add form with Delete and
\* Undo. The countdown and the banner timeout run in all of them.
Sessions == {"form", "undo", "store"}

Controls(s) ==
  CASE s = "form" -> {"navigate", "add", "edit", "cancel", "input", "save"}
    [] s = "undo" -> {"navigate", "search", "add", "edit", "cancel", "save",
                      "delete", "undo"}
    [] s = "store" -> {"add", "input", "save", "delete", "undo"}

UserMay(control) == control \in Controls(session)

\* No helper function is being called on its own.
NoCall == [fn |-> "none"]

\* The first render of a fresh component over the store, and its effects.
FirstRender ==
  /\ mounted = TRUE
  /\ products = LoadProducts(<<>>)
  /\ searchQuery = LoadSearchQuery(<<>>)
  /\ storage = SaveEffect(<<>>, products, searchQuery)
  /\ isModalOpen = FALSE
  /\ newProduct = EmptyProduct
  /\ editedProduct = Null
  /\ deletedProduct = Null
  /\ undoTimer = UNDO_SECONDS
  /\ timer = TimerAfter(undoTimer, deletedProduct)
  /\ showSuccess = FALSE
  /\ successTimeouts = 0
  /\ formErrors = NoErrors
  /\ lastOp = <<"mount">>
  /\ beforeDelete = <<>>
  /\ editOrigin = <<>>
  /\ nChanges = 0
  /\ session \in Sessions

Init == FirstRender /\ call = NoCall

\* Navigating to /inventory: the component is constructed from the store.
Mount ==
  /\ ~mounted
  /\ UserMay("navigate")
  /\ mounted' = TRUE
  /\ products' = LoadProducts(storage)
  /\ searchQuery' = LoadSearchQuery(storage)
  /\ storage' = SaveEffect(storage, products', searchQuery')
  /\ isModalOpen' = FALSE
  /\ newProduct' = EmptyProduct
  /\ editedProduct' = Null
  /\ deletedProduct' = Null
  /\ undoTimer' = UNDO_SECONDS
  /\ timer' = TimerAfter(undoTimer', deletedProduct')
  /\ showSuccess' = FALSE
  /\ successTimeouts' = 0
  /\ formErrors' = NoErrors
  /\ lastOp' = <<"mount">>
  /\ beforeDelete' = <<>>
  /\ editOrigin' = <<>>
  /\ UNCHANGED <<session, call, nChanges>>

\* Navigating away: the component state is dropped, the timer effect's cleanup
\* clears the armed countdown timeout; the store stays.
Unmount ==
  /\ mounted
  /\ UserMay("navigate")
  /\ mounted' = FALSE
  /\ timer' = Cleanup(timer, undoTimer, deletedProduct)
  /\ products' = <<>>
  /\ searchQuery' = <<>>
  /\ isModalOpen' = FALSE
  /\ newProduct' = EmptyProduct
  /\ editedProduct' = Null
  /\ deletedProduct' = Null
  /\ undoTimer' = UNDO_SECONDS
  /\ showSuccess' = FALSE
  /\ successTimeouts' = 0
  /\ formErrors' = NoErrors
  /\ lastOp' = <<"unmount">>
  /\ beforeDelete' = <<>>
  /\ editOrigin' = <<>>
  /\ UNCHANGED <<storage, session, call, nChanges>>

\* The search box's onChange.
SetSearchQuery(q) ==
  /\ mounted
  /\ UserMay("search")
  /\ searchQuery' = q
  /\ storage' = SaveEffect(storage, products, q)
  /\ lastOp' = <<"ui">>
  /\ UNCHANGED <<mounted, session, call, products, modalVars, undoVars, bannerVars,
                 beforeDelete, editOrigin, nChanges>>

\* The "Add Product" button.
OpenAdd ==
  /\ mounted
  /\ UserMay("add")
  /\ isModalOpen' = TRUE
  /\ editedProduct' = Null
  /\ formErrors' = NoErrors
  /\ lastOp' = <<"ui">>
  /\ editOrigin' = <<>>
  /\ UNCHANGED <<mounted, session, call, storage, products, searchQuery, newProduct, undoVars,
                 bannerVars, beforeDelete, nChanges>>

\* handleEdit, from the Edit button of a rendered row.
handleEdit(product) ==
  /\ mounted
  /\ UserMay("edit")
  /\ editedProduct' = product
  /\ formErrors' = NoErrors
  /\ isModalOpen' = TRUE
  /\ lastOp' = <<"ui">>
  /\ editOrigin' = <<product.code>>
  /\ UNCHANGED <<mounted, session, call, storage, products, searchQuery, newProduct, undoVars,
                 bannerVars, beforeDelete, nChanges>>

\* The modal's Cancel button.
Cancel ==
  /\ mounted
  /\ UserMay("cancel")
  /\ isModalOpen
  /\ isModalOpen' = FALSE
  /\ formErrors' = NoErrors
  /\ lastOp' = <<"cancel">>
  /\ UNCHANGED <<mounted, session, call, storage, products, searchQuery, newProduct, editedProduct,
                 undoVars, bannerVars, beforeDelete, editOrigin, nChanges>>

\* A mutant of handleChange: the input always goes to the add-draft.
handleChangeNewOnly(name, value) ==
  LET newValue == IF name \in numericFields THEN OrZero(ParseFloat(value)) ELSE value
  IN  /\ mounted
      /\ UserMay("input")
      /\ isModalOpen
      /\ nChanges < MaxChanges
      /\ nChanges' = nChanges + 1
      /\ newProduct' = [newProduct EXCEPT ![name] = newValue]
      /\ lastOp' = <<"input", name,
                     name \in numericFields /\ ParseFloat(value) = <<>>>>
      /\ UNCHANGED <<mounted, session, call, storage, products, searchQuery, isModalOpen,
                     formErrors, editedProduct, undoVars, bannerVars, beforeDelete,
                     editOrigin>>

\* handleChange, from an input of the open modal.
handleChange(name, value) ==
  LET newValue == IF name \in numericFields THEN OrZero(ParseFloat(value)) ELSE value
  IN  /\ mounted
      /\ UserMay("input")
      /\ isModalOpen
      /\ nChanges < MaxChanges
      /\ nChanges' = nChanges + 1
      /\ IF editedProduct # Null
           THEN /\ editedProduct' = [editedProduct EXCEPT ![name] = newValue]
                /\ UNCHANGED newProduct
           ELSE /\ newProduct' = [newProduct EXCEPT ![name] = newValue]
                /\ UNCHANGED editedProduct
      /\ lastOp' = <<"input", name,
                     name \in numericFields /\ ParseFloat(value) = <<>>>>
      /\ UNCHANGED <<mounted, session, call, storage, products, searchQuery, isModalOpen, formErrors,
                     undoVars, bannerVars, beforeDelete, editOrigin>>

\* handleAddProduct: the modal's Save button while no edit-draft exists.
handleAddProduct ==
  LET errors == validateForm(newProduct)
      updated == SortByCode(products \o <<newProduct>>)
  IN  /\ mounted
      /\ UserMay("save")
      /\ isModalOpen
      /\ editedProduct = Null
      /\ IF HasErrors(errors)
           THEN /\ formErrors' = errors
                /\ lastOp' = <<"add", "invalid">>
                /\ UNCHANGED <<storage, products, newProduct, isModalOpen,
                               bannerVars, beforeDelete>>
           ELSE /\ Len(products) < MaxProducts
                /\ successTimeouts < MaxPending
                /\ products' = updated
                /\ storage' = SaveEffect(storage, updated, searchQuery)
                /\ newProduct' = EmptyProduct
                /\ formErrors' = NoErrors
                /\ isModalOpen' = FALSE
                /\ showSuccess' = TRUE
                /\ successTimeouts' = successTimeouts + 1
                /\ lastOp' = <<"add", "ok">>
                /\ beforeDelete' = <<>>
      /\ UNCHANGED <<mounted, session, call, searchQuery, editedProduct, undoVars, editOrigin, nChanges>>

\* handleSaveEdit: the modal's Save button while an edit-draft exists.
handleSaveEdit ==
  LET errors == validateForm(editedProduct)
      updated == [i \in 1..Len(products) |->
                    IF products[i].code = editedProduct.code
                      THEN editedProduct ELSE products[i]]
  IN  /\ mounted
      /\ UserMay("save")
      /\ isModalOpen
      /\ editedProduct # Null
      /\ IF HasErrors(errors)
           THEN /\ formErrors' = errors
                /\ lastOp' = <<"saveEdit", "invalid">>
                /\ UNCHANGED <<storage, products, editedProduct, isModalOpen,
                               bannerVars, beforeDelete>>
           ELSE /\ successTimeouts < MaxPending
                /\ products' = updated
                /\ storage' = SaveEffect(storage, updated, searchQuery)
                /\ editedProduct' = Null
                /\ isModalOpen' = FALSE
                /\ showSuccess' = TRUE
                /\ successTimeouts' = successTimeouts + 1
                /\ lastOp' = <<"saveEdit", "ok">>
                /\ beforeDelete' = <<>>
                /\ UNCHANGED formErrors
      /\ UNCHANGED <<mounted, session, call, searchQuery, newProduct, undoVars, editOrigin, nChanges>>

\* A mutant of handleDelete: a product that is still held is not replaced.
handleDeleteKeepsHeld(code) ==
  LET found == FindByCode(products, code)
      productToDelete == IF found = <<>> THEN Null ELSE found[1]
      rest == WithoutCode(products, code)
  IN  /\ mounted
      /\ UserMay("delete")
      /\ undoTimer' = UNDO_SECONDS
      /\ deletedProduct' = IF deletedProduct # Null THEN deletedProduct
                            ELSE HeldAfter(undoTimer', productToDelete)
      /\ timer' = TimerEffect(timer, undoTimer, deletedProduct,
                              undoTimer', deletedProduct')
      /\ products' = rest
      /\ storage' = SaveEffect(storage, rest, searchQuery)
      /\ lastOp' = <<"delete", code, deletedProduct # Null>>
      /\ beforeDelete' = <<products>>
      /\ UNCHANGED <<mounted, session, call, searchQuery, modalVars, bannerVars,
                     editOrigin, nChanges>>

\* handleDelete, from the Delete button of a rendered row.
handleDelete(code) ==
  LET found == FindByCode(products, code)
      productToDelete == IF found = <<>> THEN Null ELSE found[1]
      rest == WithoutCode(products, code)
  IN  /\ mounted
      /\ UserMay("delete")
      /\ undoTimer' = UNDO_SECONDS
      /\ deletedProduct' = HeldAfter(undoTimer', productToDelete)
      /\ timer' = TimerEffect(timer, undoTimer, deletedProduct,
                              undoTimer', deletedProduct')
      /\ products' = rest
      /\ storage' = SaveEffect(storage, rest, searchQuery)
      /\ lastOp' = <<"delete", code, deletedProduct # Null>>
      /\ beforeDelete' = <<products>>
      /\ UNCHANGED <<mounted, session, call, searchQuery, modalVars, bannerVars, editOrigin, nChanges>>

\* handleUndoDelete: the Undo button of the notification; nothing happens
\* when no product is held.
handleUndoDelete ==
  LET updated == SortByCode(products \o <<deletedProduct>>)
  IN  /\ mounted
      /\ UserMay("undo")
      /\ IF deletedProduct # Null
           THEN /\ products' = updated
                /\ storage' = SaveEffect(storage, updated, searchQuery)
                /\ deletedProduct' = Null
                /\ timer' = TimerEffect(timer, undoTimer, deletedProduct,
                                        undoTimer, deletedProduct')
                /\ lastOp' = <<"undo", "ok">>
           ELSE /\ lastOp' = <<"undo", "none">>
                /\ UNCHANGED <<products, storage, deletedProduct, timer>>
      /\ UNCHANGED <<mounted, session, call, searchQuery, modalVars, undoTimer, bannerVars,
                     beforeDelete, editOrigin, nChanges>>

\* A pending countdown timeout fires: setUndoTimer(captured - 1), then the
\* timer effect re-arms, or at 0 clears the held product (and runs once more
\* for the render that follows).
Tick ==
  /\ mounted
  /\ \E i \in 1..Len(timer) :
       /\ undoTimer' = timer[i] - 1
       /\ deletedProduct' = HeldAfter(undoTimer', deletedProduct)
       /\ timer' = TimerEffect(TimerEffect(RemoveAt(timer, i),
                                          undoTimer, deletedProduct,
                                          undoTimer', deletedProduct),
                              undoTimer', deletedProduct,
                              undoTimer', deletedProduct')
  /\ lastOp' = <<"tick">>
  /\ beforeDelete' = IF deletedProduct' = Null THEN <<>> ELSE beforeDelete
  /\ UNCHANGED <<mounted, session, call, storage, products, searchQuery, modalVars, bannerVars,
                 editOrigin, nChanges>>

\* A banner timeout fires: setShowSuccess(false).
DismissSuccess ==
  /\ mounted
  /\ successTimeouts > 0
  /\ successTimeouts' = successTimeouts - 1
  /\ showSuccess' = FALSE
  /\ lastOp' = <<"ui">>
  /\ UNCHANGED <<mounted, session, call, storage, products, searchQuery, modalVars, undoVars,
                 beforeDelete, editOrigin, nChanges>>

\* The rows the table renders: the Edit and Delete buttons exist for these.
Rows == filteredProducts(products, searchQuery)

EditRow == \E i \in 1..Len(Rows) : handleEdit(Rows[i])

DeleteRow == \E i \in 1..Len(Rows) : handleDelete(Rows[i].code)

ChangeField == \E name \in FieldNames : \E value \in InputValues(name) : handleChange(name, value)

Search == \E q \in Queries : SetSearchQuery(q)

Next ==
  \/ Mount
  \/ Unmount
  \/ Search
  \/ OpenAdd
  \/ EditRow
  \/ Cancel
  \/ ChangeField
  \/ handleAddProduct
  \/ handleSaveEdit
  \/ DeleteRow
  \/ handleUndoDelete
  \/ Tick
  \/ DismissSuccess

Spec == Init /\ [][Next]_vars

\* The browser runs a pending timeout once it is due: the countdown timeout
\* (1 s) and the banner timeout (3 s) are not postponed for ever.
SpecLive == Spec /\ WF_vars(Tick) /\ WF_vars(DismissSuccess)

\* ------------------------------------------------------------------ helper calls

\* JavaScript values as calculateMargin may find them in a product's fields:
\* a number, NaN, undefined (a missing field) or a string.
JSNumber(n) == [t |-> "number", v |-> n]
JSNaN == [t |-> "NaN"]
JSUndefined == [t |-> "undefined"]
JSString(s) == [t |-> "string", v |-> s]

\* Number(x) on a string: the whole trimmed string must be a run of digits
\* with an optional sign; the empty string is 0; <<>> for NaN.
StringToNumber(s) ==
  LET t == Trim(s)
      neg == t # <<>> /\ Head(t) = "-"
      body == IF t # <<>> /\ Head(t) \in {"-", "+"} THEN Tail(t) ELSE t
  IN  IF t = <<>> THEN <<0>>
      ELSE IF body = <<>> \/ \E i \in 1..Len(body) : IndexOf(Digits, body[i]) = 0
        THEN <<>>
      ELSE <<(IF neg THEN -1 ELSE 1) * DigitsValue(body, 0)>>

\* Number(x): <<n>>, or <<>> for NaN.
ToNumber(x) ==
  CASE x.t = "number" -> <<x.v>>
    [] x.t = "NaN" -> <<>>
    [] x.t = "undefined" -> <<>>
    [] x.t = "string" -> StringToNumber(x.v)

\* The decimal digits of a natural number.
RECURSIVE NatToString(_)
NatToString(n) ==
  IF n < 10 THEN <<Digits[n + 1]>>
  ELSE NatToString(n \div 10) \o <<Digits[(n % 10) + 1]>>

\* (num / den).toFixed(2) for integers num and den > 0: the sign, then the
\* magnitude rounded to hundredths (a tie goes to the larger), two fraction
\* digits always.
ToFixed2(num, den) ==
  LET mag == IF num < 0 THEN -num ELSE num
      h == (2 * 100 * mag + den) \div (2 * den)
  IN  (IF num < 0 THEN <<"-">> ELSE <<>>)
        \o NatToString(h \div 100) \o <<".">>
        \o <<Digits[((h % 100) \div 10) + 1], Digits[(h % 10) + 1]>>

\* What toFixed gives for NaN.
NaNText == <<"N", "a", "N">>

\* The arithmetic and formatting of calculateMargin on its coerced numbers.
MarginOf(cost, price, sold) ==
  LET totalRevenue == price * sold
      totalCost == cost * sold
      marginAmount == totalRevenue - totalCost
  IN  [marginAmount |-> ToFixed2(marginAmount, 1),
       marginPercentage |-> IF totalCost > 0
                              THEN ToFixed2(marginAmount * 100, totalCost)
                              ELSE <<"0", ".", "0", "0">>,
       totalRevenue |-> ToFixed2(totalRevenue, 1),
       totalCost |-> ToFixed2(totalCost, 1)]

\* A mutant of calculateMargin: the fields are not coerced with `|| 0`.
calculateMarginUncoerced(product) ==
  LET cost == ToNumber(product.costPrice)
      price == ToNumber(product.price)
      sold == ToNumber(product.sold)
  IN  IF cost = <<>> \/ price = <<>> \/ sold = <<>>
        THEN [marginAmount |-> NaNText, marginPercentage |-> NaNText,
              totalRevenue |-> NaNText, totalCost |-> NaNText]
        ELSE MarginOf(cost[1], price[1], sold[1])

\* calculateMargin
calculateMargin(product) ==
  MarginOf(OrZero(ToNumber(product.costPrice)),
           OrZero(ToNumber(product.price)),
           OrZero(ToNumber(product.sold)))

\* A category that is not in the category list.
Unlisted == <<"U", "n", "l", "i", "s", "t", "e", "d">>

\* The candidates validateForm is called on: every combination of a passing
\* and a failing value per field.
ValidateInputs ==
  [code : {<<>>, <<" ">>, B1},
   name : {<<>>, Sari},
   category : {<<>>, Blouses, Unlisted},
   costPrice : {-5, 0},
   price : {-1, 0, 65},
   qty : {-1, 0},
   sold : {-1, 0}]

\* The values calculateMargin is called on, per field.
PriceInputs == <<JSNumber(0), JSNumber(3), JSNumber(65), JSUndefined, JSNaN,
                 JSString(<<"a", "b", "c">>), JSString(<<>>)>>
CostInputs == <<JSNumber(0), JSNumber(2), JSNumber(45), JSUndefined,
                JSString(<<"x">>)>>
SoldInputs == <<JSNumber(0), JSNumber(1), JSNumber(10), JSUndefined,
                JSString(<<"a", "b", "c">>)>>

\* The helper functions alone: a call is drawn with its argument, over the
\* first render of the seed store.
InitCalls ==
  /\ FirstRender
  /\ \/ \E product \in ValidateInputs :
          call = [fn |-> "validateForm", arg |-> product, result |-> <<>>]
     \/ \E i \in 1..Len(CostInputs), j \in 1..Len(PriceInputs),
           k \in 1..Len(SoldInputs) :
          call = [fn |-> "calculateMargin",
                  arg |-> [costPrice |-> CostInputs[i], price |-> PriceInputs[j],
                           sold |-> SoldInputs[k]],
                  result |-> <<>>]

\* validateForm returns.
validateFormCall ==
  /\ call.fn = "validateForm"
  /\ call.result = <<>>
  /\ call' = [call EXCEPT !.result = <<validateForm(call.arg)>>]
  /\ UNCHANGED componentVars

\* calculateMargin returns.
calculateMarginCall ==
  /\ call.fn = "calculateMargin"
  /\ call.result = <<>>
  /\ call' = [call EXCEPT !.result = <<calculateMargin(call.arg)>>]
  /\ UNCHANGED componentVars

NextCalls ==
  \/ validateFormCall
  \/ calculateMarginCall

SpecCalls == InitCalls /\ [][NextCalls]_vars

\* ------------------------------------------------------------------ claims

\* The elements of a sequence.
Range(seq) == {seq[i] : i \in 1..Len(seq)}

\* How many times x occurs in a sequence.
Count(seq, x) == Cardinality({i \in 1..Len(seq) : seq[i] = x})

\* The draft the Save button submits.
ActiveDraft == IF editedProduct # Null THEN editedProduct ELSE newProduct

\* C1: no two products of the live list have the same code.
C1_UniqueCodes ==
  mounted =>
    \A i, j \in 1..Len(products) : i # j => products[i].code # products[j].code

\* C2: an Undo that follows a Delete, with no save and no expiry in between,
\* leaves the live list equal to the list before the Delete and the slot empty.
C2_DeleteUndoIsIdentity ==
  (lastOp = <<"undo", "ok">> /\ beforeDelete # <<>>) =>
    /\ products = beforeDelete[1]
    /\ deletedProduct = Null

\* C3: when the countdown is at 0 no product is held; and while no product is
\* held, an Undo or a tick changes neither the live list, the slot nor the
\* countdown, so a product whose countdown ran out is never put back by them.
C3_ExpiryIsFinal ==
  /\ [](undoTimer = 0 => deletedProduct = Null /\ timer = <<>>)
  /\ [][(deletedProduct = Null /\ lastOp'[1] \in {"undo", "tick"}) =>
          UNCHANGED <<products, storage, deletedProduct, undoTimer, timer>>]_vars

\* C3 witness: Undo was invoked after the countdown of a deleted product ran out.
C3_Witness ==
  /\ lastOp = <<"undo", "none">>
  /\ undoTimer = 0
  /\ Len(products) < Len(initialProducts)

\* The rules a draft must meet to be saved: code and name not blank, a category,
\* a price above 0 and no negative cost, quantity or sold count.
C4_Acceptable(p) ==
  /\ Trim(p.code) # <<>>
  /\ Trim(p.name) # <<>>
  /\ p.category # <<>>
  /\ p.price > 0
  /\ p.costPrice >= 0
  /\ p.qty >= 0
  /\ p.sold >= 0

\* C4: a Save whose draft is not acceptable leaves the live list and the stored
\* list as they were, keeps the modal open and sets a non-empty formErrors,
\* with an entry for price when the price is not above 0.
C4_InvalidSaveKeepsStore ==
  [][(lastOp'[1] \in {"add", "saveEdit"} /\ ~C4_Acceptable(ActiveDraft)) =>
       /\ lastOp'[2] = "invalid"
       /\ products' = products
       /\ storage' = storage
       /\ isModalOpen'
       /\ formErrors' # NoErrors
       /\ (ActiveDraft.price <= 0 => "price" \in DOMAIN formErrors')]_vars

\* C4 witness: an Add was refused for its price, with the seed list in place.
C4_Witness ==
  /\ lastOp = <<"add", "invalid">>
  /\ "price" \in DOMAIN formErrors
  /\ newProduct.price = 0
  /\ isModalOpen
  /\ products = initialProducts

\* C5: a successful Edit-save puts the draft at the position of the record that
\* had the code of the row the form was opened on, changes nothing else and
\* closes the modal.
C5_EditReplacesOriginal ==
  [][(lastOp' = <<"saveEdit", "ok">> /\ editedProduct # Null) =>
       /\ Len(products') = Len(products)
       /\ \A i \in 1..Len(products) :
            products'[i] = IF products[i].code = editOrigin[1]
                             THEN editedProduct ELSE products[i]
       /\ ~isModalOpen']_vars

\* C6: the live list is in ascending order of code.
C6_SortedByCode ==
  \A i \in 1..(Len(products) - 1) :
    LocaleCompare(products[i].code, products[i + 1].code) <= 0

\* C6 witness: an Add put a product in front of the rest and an Undo put the
\* first seed product back between it and the second.
C6_Witness ==
  /\ lastOp = <<"undo", "ok">>
  /\ Len(products) = 3
  /\ products[1].code = a1
  /\ products[2] = initialProducts[1]
  /\ products[3] = initialProducts[2]

\* C7: a Delete holds the product it deleted, whatever was held before, and
\* does not put the product held before back; an Undo adds the held product
\* and nothing else to the live list and empties the slot.
C7_SupersededIsLost ==
  [][/\ lastOp'[1] = "delete" =>
          /\ deletedProduct' # Null
          /\ deletedProduct'.code = lastOp'[2]
          /\ deletedProduct' \in Range(products)
          /\ Range(products') \subseteq Range(products)
          /\ (deletedProduct # Null /\ deletedProduct \notin Range(products)) =>
               /\ deletedProduct' # deletedProduct
               /\ deletedProduct \notin Range(products')
     /\ lastOp' = <<"undo", "ok">> =>
          /\ deletedProduct # Null
          /\ deletedProduct' = Null
          /\ Len(products') = Len(products) + 1
          /\ \A p \in Range(products') :
               Count(products', p) =
                 Count(products, p) + (IF p = deletedProduct THEN 1 ELSE 0)
     /\ lastOp' = <<"undo", "none">> =>
          UNCHANGED <<products, deletedProduct>>]_vars

\* C7 witness: the second seed product was deleted while the first was held.
C7_Witness ==
  /\ lastOp = <<"delete", B2, TRUE>>
  /\ deletedProduct = initialProducts[2]
  /\ initialProducts[1] \notin Range(products)

\* C8: a Delete moves one record, the one with the given code, to the slot,
\* leaves the other records as they were and in their order, and sets the
\* countdown to its full length with the timeout armed.
C8_DeleteMovesOneRecord ==
  [][lastOp'[1] = "delete" =>
       /\ \E i \in 1..Len(products) :
            /\ products[i].code = lastOp'[2]
            /\ deletedProduct' = products[i]
            /\ products' = RemoveAt(products, i)
       /\ undoTimer' = UNDO_SECONDS
       /\ timer' = <<UNDO_SECONDS>>]_vars

\* C9: while the screen is mounted the store holds the live list and the
\* query as they are, the stored list parses back to the live list, and a
\* mount loads the stored list (the seed list when nothing is stored).
C9_StorageMirrorsState ==
  /\ [](mounted =>
          /\ DOMAIN storage = {"products", "searchQuery"}
          /\ storage["products"] = JSONStringify(products)
          /\ JSONParse(storage["products"]) = products
          /\ storage["searchQuery"] = searchQuery)
  /\ [][lastOp' = <<"mount">> /\ ~mounted =>
          /\ products' = JSONParse(storage["products"])
          /\ storage' = storage]_vars
  /\ LoadProducts(<<>>) = initialProducts

\* C9 witness: the screen was mounted again after a Delete and shows the list
\* without the deleted product.
C9_Witness ==
  /\ lastOp = <<"mount">>
  /\ products = <<initialProducts[2]>>
  /\ JSONParse(storage["products"]) = products

\* C10: formErrors is empty whenever the modal is closed.
C10_ClosedModalHasNoErrors ==
  (mounted /\ ~isModalOpen) => formErrors = NoErrors

\* C11: a successful Add leaves the live list with every record it had, each as
\* often as before, and one more occurrence of the draft; the add-draft is
\* back at its empty defaults, the modal is closed and the banner is shown.
C11_AddAppendsDraft ==
  [][lastOp' = <<"add", "ok">> =>
       /\ Len(products') = Len(products) + 1
       /\ \A p \in Range(products) \cup Range(products') :
            Count(products', p) =
              Count(products, p) + (IF p = newProduct THEN 1 ELSE 0)
       /\ newProduct' = [code |-> <<>>, name |-> <<>>, category |-> <<>>,
                         costPrice |-> 0, price |-> 0, qty |-> 0, sold |-> 0]
       /\ ~isModalOpen'
       /\ showSuccess']_vars

\* C11 witness: an Add put a third product, with a code already in the list,
\* beside the two seed products.
C11_Witness ==
  /\ lastOp = <<"add", "ok">>
  /\ Len(products) = 3
  /\ Count([i \in 1..3 |-> products[i].code], B1) = 2
  /\ Range(initialProducts) \subseteq Range(products)
  /\ newProduct = EmptyProduct
  /\ ~isModalOpen
  /\ showSuccess

\* C12: the countdown stays within 0..10; a tick is possible exactly while a
\* product is held and the count is above 0; a tick takes 1 off the count,
\* leaves the live list alone and leaves the held product alone unless the
\* count reached 0, where the slot is emptied; a Delete starts at 10; and a
\* held product is in the end cleared unless another Delete comes first.
C12_CountdownTicks ==
  /\ [](mounted => undoTimer \in 0..UNDO_SECONDS)
  /\ [](mounted => (ENABLED Tick <=> (deletedProduct # Null /\ undoTimer > 0)))
  /\ [][lastOp' = <<"tick">> =>
          /\ undoTimer' = undoTimer - 1
          /\ products' = products
          /\ storage' = storage
          /\ deletedProduct' = IF undoTimer' = 0 THEN Null ELSE deletedProduct]_vars
  /\ [][lastOp'[1] = "delete" => undoTimer' = 10]_vars
  /\ (deletedProduct # Null) ~> (deletedProduct = Null \/ lastOp[1] = "delete")

\* C12 witness: the tenth tick after a Delete emptied the slot.
C12_Witness ==
  /\ lastOp = <<"tick">>
  /\ undoTimer = 0
  /\ deletedProduct = Null
  /\ timer = <<>>
  /\ products = <<initialProducts[2]>>

\* C13: at most one countdown timeout is pending, and a pending one captured
\* the current count while a product is held; a Delete leaves exactly its own
\* timeout pending, an Undo and leaving the screen leave none.
C13_NoStaleCallback ==
  /\ [](Len(timer) <= 1)
  /\ [](\A i \in 1..Len(timer) :
          mounted /\ timer[i] = undoTimer /\ deletedProduct # Null)
  /\ [][lastOp'[1] = "delete" => timer' = <<UNDO_SECONDS>>]_vars
  /\ [][lastOp' \in {<<"undo", "ok">>, <<"unmount">>} => timer' = <<>>]_vars

\* C13 witness: a second Delete came while the countdown of the first was
\* running, and only its own timeout is pending.
C13_Witness ==
  /\ lastOp = <<"delete", B1, TRUE>>
  /\ deletedProduct = initialProducts[1]
  /\ products = <<>>
  /\ timer = <<UNDO_SECONDS>>

\* C14: a successful Add or Edit-save shows the banner; the banner stays while
\* the timeout of the latest success is pending (the timeouts fire in the
\* order they were set, so that is while any is pending); and a banner shown
\* is in the end dismissed.
C14_BannerLastsItsDuration ==
  /\ [][lastOp' \in {<<"add", "ok">>, <<"saveEdit", "ok">>} => showSuccess']_vars
  /\ []((mounted /\ successTimeouts > 0) => showSuccess)
  /\ (showSuccess ~> ~showSuccess)

\* The fields of a candidate that break their rule: code and name blank after
\* trimming, category empty, price not above 0, cost, quantity or sold below 0.
C15_Broken(p) ==
  (IF Trim(p.code) = <<>> THEN {"code"} ELSE {})
    \cup (IF Trim(p.name) = <<>> THEN {"name"} ELSE {})
    \cup (IF p.category = <<>> THEN {"category"} ELSE {})
    \cup (IF p.price > 0 THEN {} ELSE {"price"})
    \cup (IF p.costPrice >= 0 THEN {} ELSE {"costPrice"})
    \cup (IF p.qty >= 0 THEN {} ELSE {"qty"})
    \cup (IF p.sold >= 0 THEN {} ELSE {"sold"})

\* C15: validateForm returns the empty mapping exactly for the candidates that
\* meet every rule, and otherwise a mapping with an entry for each field whose
\* rule is broken and for no other.
C15_ValidateReportsEachRule ==
  (call.fn = "validateForm" /\ call.result # <<>>) =>
    /\ DOMAIN call.result[1] = C15_Broken(call.arg)
    /\ (call.result[1] = NoErrors) <=> C4_Acceptable(call.arg)

\* C15 witness: a candidate with a blank code, no category and a price of 0
\* came back with exactly these three entries.
C15_Witness ==
  /\ call.fn = "validateForm"
  /\ call.result # <<>>
  /\ call.arg.code = <<" ">>
  /\ DOMAIN call.result[1] = {"code", "category", "price"}

\* C16: validateForm reports an error on category for every candidate whose
\* category is not in the category list.
C16_UnlistedCategoryRejected ==
  (call.fn = "validateForm" /\ call.result # <<>>
     /\ call.arg.category \notin categories) =>
    "category" \in DOMAIN call.result[1]

\* The number a text of the form [-]d..d.dd stands for, in hundredths, as
\* <<h>>; <<>> for any other text.
C17_Hundredths(text) ==
  LET neg == text # <<>> /\ Head(text) = "-"
      body == IF neg THEN Tail(text) ELSE text
      n == Len(body)
  IN  IF n < 4 \/ body[n - 2] # "."
           \/ \E i \in (1..n) \ {n - 2} : IndexOf(Digits, body[i]) = 0
        THEN <<>>
        ELSE <<(IF neg THEN -1 ELSE 1)
                 * (100 * DigitsValue(SubSeq(body, 1, n - 3), 0)
                      + DigitsValue(SubSeq(body, n - 1, n), 0))>>

\* The number a field holds when it holds one, 0 when it is missing or holds
\* no number.
C17_NumberOrZero(x) == IF x.t = "number" THEN x.v ELSE 0

\* C17: for a product whose price, cost and sold are numbers, missing or not
\* numeric (then counted as 0), the total revenue is price * sold, the total
\* cost is cost * sold, the margin is their difference, the percentage is
\* "0.00" when the total cost is 0, and every output is a decimal number.
C17_MarginArithmetic ==
  (call.fn = "calculateMargin" /\ call.result # <<>>
     /\ \A f \in DOMAIN call.arg :
          call.arg[f].t \in {"number", "undefined", "NaN"}
            \/ (call.arg[f].t = "string" /\ StringToNumber(call.arg[f].v) = <<>>)) =>
    LET price == C17_NumberOrZero(call.arg.price)
        cost == C17_NumberOrZero(call.arg.costPrice)
        sold == C17_NumberOrZero(call.arg.sold)
        out == call.result[1]
    IN  /\ C17_Hundredths(out.totalRevenue) = <<100 * price * sold>>
        /\ C17_Hundredths(out.totalCost) = <<100 * cost * sold>>
        /\ C17_Hundredths(out.marginAmount) = <<100 * (price * sold - cost * sold)>>
        /\ cost * sold = 0 => out.marginPercentage = <<"0", ".", "0", "0">>
        /\ C17_Hundredths(out.marginPercentage) # <<>>

\* C17 witness: a product with a price that is not a number and 10 sold at a
\* cost of 45 has a revenue of 0.00 and a cost of 450.00.
C17_Witness ==
  /\ call.fn = "calculateMargin"
  /\ call.result # <<>>
  /\ call.arg.price.t = "string"
  /\ call.result[1].totalRevenue = <<"0", ".", "0", "0">>
  /\ call.result[1].totalCost = <<"4", "5", "0", ".", "0", "0">>
  /\ call.result[1].marginAmount = <<"-", "4", "5", "0", ".", "0", "0">>

\* Two characters that are the same but for their case.
C18_SameLetter(a, b) ==
  a = b \/ \E k \in 1..Len(UpperCase) : {a, b} = {UpperCase[k], LowerCase[k]}

\* q occurs in s at some offset, ignoring case.
C18_Contains(s, q) ==
  \E off \in 0..(Len(s) - Len(q)) :
    \A k \in 1..Len(q) : C18_SameLetter(s[off + k], q[k])

\* A product the query selects.
C18_Selected(p) ==
  C18_Contains(p.name, searchQuery) \/ C18_Contains(p.code, searchQuery)

\* C18: the rows shown are the live products, in list order, whose name or
\* code contains the query ignoring case, all of them for the empty query; a
\* change of the query leaves the live list and the slot alone; and a Delete
\* from the filtered view removes from the whole list the products with the
\* row's code and keeps every other product, shown or not.
C18_SearchIsAView ==
  /\ [](mounted => Rows = SelectSeq(products, C18_Selected))
  /\ []((mounted /\ searchQuery = <<>>) => Rows = products)
  /\ [][(mounted /\ mounted' /\ searchQuery' # searchQuery) =>
          UNCHANGED <<products, deletedProduct, undoTimer>>]_vars
  /\ [][lastOp'[1] = "delete" =>
          products' = SelectSeq(products, LAMBDA p : p.code # lastOp'[2])]_vars
  /\ [][lastOp' = <<"undo", "ok">> =>
          Range(products') = Range(products) \cup {deletedProduct}]_vars

\* C18 witness: with a query that shows the second seed product alone, that
\* row was deleted and the first seed product, not shown, is still live.
C18_Witness ==
  /\ lastOp = <<"delete", B2, FALSE>>
  /\ searchQuery = arvind
  /\ products = <<initialProducts[1]>>
  /\ Rows = <<>>

\* C19: opening the add or the edit form, a field input, Cancel and a refused
\* Save leave the live list and the stored list as they are; opening the edit
\* form makes the edit-draft a copy of a row shown; a field input changes one
\* field, of the edit-draft when the form was opened by Edit and of the
\* add-draft when it was opened by Add Product, and leaves the other draft
\* alone; and a numeric field whose input is no number holds 0.
C19_FormLeavesStore ==
  /\ [][(\/ lastOp' \in {<<"ui">>, <<"cancel">>, <<"add", "invalid">>,
                         <<"saveEdit", "invalid">>}
         \/ lastOp'[1] = "input") =>
          /\ products' = products
          /\ mounted => storage'["products"] = storage["products"]]_vars
  /\ [][(nChanges' = nChanges /\ editedProduct' # Null
           /\ editedProduct' # editedProduct) =>
          /\ editedProduct' \in Range(Rows)
          /\ isModalOpen'
          /\ newProduct' = newProduct]_vars
  /\ [][lastOp'[1] = "input" =>
          /\ isModalOpen /\ isModalOpen'
          /\ IF editOrigin # <<>>
               THEN /\ newProduct' = newProduct
                    /\ editedProduct # Null
                    /\ \A g \in FieldNames \ {lastOp'[2]} :
                         editedProduct'[g] = editedProduct[g]
                    /\ lastOp'[3] => editedProduct'[lastOp'[2]] = 0
               ELSE /\ editedProduct' = Null
                    /\ editedProduct = Null
                    /\ \A g \in FieldNames \ {lastOp'[2]} :
                         newProduct'[g] = newProduct[g]
                    /\ lastOp'[3] => newProduct'[lastOp'[2]] = 0]_vars

\* C19 witness: in the edit form of the first seed product the price was
\* cleared; the edit-draft has price 0, the add-draft and the list are as
\* they were.
C19_Witness ==
  /\ lastOp = <<"input", "price", TRUE>>
  /\ isModalOpen
  /\ editedProduct = [initialProducts[1] EXCEPT !.price = 0]
  /\ newProduct = EmptyProduct
  /\ products = initialProducts
  /\ storage["products"] = JSONStringify(initialProducts)

\* C20: every live product, and the product held for Undo, has a code and a
\* name that are not blank, a category, a price above 0 and no negative cost,
\* quantity or sold count.
C20_StoredProductsAreValid ==
  mounted =>
    /\ \A i \in 1..Len(products) : C4_Acceptable(products[i])
    /\ deletedProduct # Null => C4_Acceptable(deletedProduct)

\* C20 witness: a product entered through the add form is live and a seed
\* product is held after a Delete.
C20_Witness ==
  /\ lastOp[1] = "delete"
  /\ deletedProduct \in Range(initialProducts)
  /\ \E i \in 1..Len(products) : products[i].name = Sari

\* C21: only the keys products and searchQuery are stored; while a product
\* is held the stored list does not contain it, also once the screen is left;
\* a mount takes the live list from the stored list, with an empty slot, a
\* countdown of 10 and no timeout pending; and an Undo with an empty slot
\* changes neither the live list nor the store.
C21_HeldProductNotPersisted ==
  /\ [](DOMAIN storage = {"products", "searchQuery"})
  /\ []((mounted /\ deletedProduct # Null) =>
          deletedProduct \notin Range(JSONParse(storage["products"])))
  /\ [][(lastOp' = <<"unmount">> /\ deletedProduct # Null) =>
          /\ storage' = storage
          /\ deletedProduct \notin Range(JSONParse(storage'["products"]))]_vars
  /\ [][lastOp' = <<"mount">> =>
          /\ products' = JSONParse(storage["products"])
          /\ deletedProduct' = Null
          /\ undoTimer' = 10
          /\ timer' = <<>>]_vars
  /\ [][lastOp' = <<"undo", "none">> =>
          UNCHANGED <<products, storage, deletedProduct>>]_vars

\* C21 witness: the second seed product was deleted, the screen was left and
\* opened again, and Undo did nothing: the product is not back.
C21_Witness ==
  /\ lastOp = <<"undo", "none">>
  /\ undoTimer = 10
  /\ deletedProduct = Null
  /\ products = <<initialProducts[1]>>
  /\ JSONParse(storage["products"]) = <<initialProducts[1]>>

====
